---- MODULE Spec2Model ----
(***************************************************************************)
(* Model of the campus dating API (src/main.py, src/schemas.py): the       *)
(* document store's collections, the HTTP handlers as operations on them,  *)
(* and the handlers' individual store steps where requests interleave.     *)
(*                                                                         *)
(* A collection is a sequence of documents in insertion order; a           *)
(* document's _id is its position, since no handler deletes a document.    *)
(***************************************************************************)
EXTENDS Integers, Sequences, FiniteSets, TLC

VARIABLES
    user,          \* db["user"]
    profile,       \* db["profile"]
    swipe,         \* db["swipe"]
    match,         \* db["match"]
    message,       \* db["message"]
    verification,  \* db["verification"]
    now,           \* int(time.time())
    resp,          \* the last completed request and its response
    pc,            \* per in-flight request: the store step it is at
    loc            \* per in-flight request: its arguments and local variables

store == <<user, profile, swipe, match, message, verification>>
vars == <<user, profile, swipe, match, message, verification, now, resp, pc, loc>>

----------------------------------------------------------------------------
(* Bounds of the model *)

MaxSwipes == 3
MaxMessages == 1
MaxVerifications == 2
MaxLimit == 2
MaxFeedSwipes == 1
MaxDrift == 1

(* Python's None *)
None == "None"

(* The requests that may be in flight together *)
Procs == {1, 2}

Idle == [op |-> "idle"]

NoResp == [op |-> "none"]

----------------------------------------------------------------------------
(* Constants of src/main.py *)

ALLOWED_DOMAINS == {"polito.it", "unito.it"}

MAGIC_TOKEN_TTL == 15 * 60

MIN_PHOTOS == 3

MAX_PHOTOS == 8

BANNED_WORDS == {"slur1", "slur2", "badword"}

----------------------------------------------------------------------------
(* Documents (src/schemas.py) *)

(* User(email=email): the defaults of the schema *)
User(email) ==
    [email |-> email, first_name |-> None, is_banned |-> FALSE,
     residence_id |-> None, allow_all_residences |-> FALSE]

Verification(email, token, purpose, expires_at) ==
    [email |-> email, token |-> token, purpose |-> purpose, used |-> FALSE,
     expires_at |-> expires_at]

Match(user_a, user_b) == [user_a |-> user_a, user_b |-> user_b]

SwipeDoc(swiper_id, target_id, direction) ==
    [swiper_id |-> swiper_id, target_id |-> target_id, direction |-> direction]

Message(match_id, sender_id, text) ==
    [match_id |-> match_id, sender_id |-> sender_id, text |-> text]

----------------------------------------------------------------------------
(* The persistence gateway: create_document, get_documents, find_one *)

(* create_document(collection, doc): insert, the new _id is the position *)
create_document(coll, doc) == Append(coll, doc)

(* find_one: the first of the matching _ids S in storage order; NoId when
   there is none (Python's None for an absent document) *)
NoId == 0

find_one(S) == IF S = {} THEN NoId ELSE CHOOSE i \in S : \A j \in S : i <= j

(* a cursor over the matching _ids S: storage order *)
RECURSIVE cursor(_)
cursor(S) ==
    IF S = {} THEN <<>>
    ELSE LET i == find_one(S) IN <<i>> \o cursor(S \ {i})

(* get_documents(collection, filter): every matching document, in storage
   order *)
get_documents(S) == cursor(S)

(* cursor.limit(n) *)
limit_to(seq, n) == IF Len(seq) <= n THEN seq ELSE SubSeq(seq, 1, n)

----------------------------------------------------------------------------
(* Email addresses: local part and domain. str.lower() is given by its
   value on each string the model uses. *)

Email(local, domain) == [local |-> local, domain |-> domain]

LowerStr(str) ==
    CASE str = "Alice" -> "alice"
      [] str = "BadWord" -> "badword"
      [] str = "POLITO.IT" -> "polito.it"
      [] OTHER -> str

lower(email) == Email(LowerStr(email.local), LowerStr(email.domain))

(* src/main.py:30-36 *)
is_valid_domain(email) == LowerStr(email.domain) \in ALLOWED_DOMAINS

----------------------------------------------------------------------------
(* POST /auth/magic/send, src/main.py:78-91 *)

(* secrets.token_urlsafe(24): a token no earlier call has returned *)
token_urlsafe == Len(verification) + 1

SendMagicLink(email, purpose) ==
    IF ~is_valid_domain(lower(email))
    THEN /\ resp' = [op |-> "send", status |-> 400, email |-> email]
         /\ UNCHANGED <<store, now, pc, loc>>
    ELSE LET token == token_urlsafe
             expires_at == now + MAGIC_TOKEN_TTL
         IN /\ Len(verification) < MaxVerifications
            /\ verification' = create_document(verification,
                                   Verification(lower(email), token, purpose, expires_at))
            /\ resp' = [op |-> "send", status |-> 200, email |-> email,
                        token |-> token, expires_at |-> expires_at]
            /\ UNCHANGED <<user, profile, swipe, match, message, now, pc, loc>>

(* time passes: the clock is observed at the start, one token lifetime
   later, and up to MaxDrift seconds after either *)
Tick(d) ==
    /\ now + d <= MAGIC_TOKEN_TTL + MaxDrift
    /\ (now + d) % MAGIC_TOKEN_TTL <= MaxDrift
    /\ now' = now + d
    /\ resp' = [op |-> "tick"]
    /\ UNCHANGED <<store, pc, loc>>

----------------------------------------------------------------------------
(* POST /auth/magic/verify, src/main.py:94-120: the store steps *)

(* get_documents("verification", {email, token, used: False}) *)
FindUnused(ver, email, token) ==
    get_documents({i \in DOMAIN ver : /\ ver[i].email = email
                               /\ ver[i].token = token
                               /\ ver[i].used = FALSE})

(* a faulty variant of Expired: a token lives one second longer *)
Expired_Late(rec, t) == rec.expires_at + 1 < t

(* rec.get("expires_at", 0) < int(time.time()) *)
Expired(rec, t) == rec.expires_at < t

(* db["user"].find_one({"email": email}) *)
FindUserByEmail(us, email) == find_one({i \in DOMAIN us : us[i].email = email})

(* a faulty variant of MarkUsed: the token is left unused *)
MarkUsed_Skipped(ver, rec) == ver

(* db["verification"].update_one({_id: rec._id}, {$set: {used: True}}) *)
MarkUsed(ver, rec) == [ver EXCEPT ![rec].used = TRUE]

VerifyFail(email, token, detail) ==
    [op |-> "verify", status |-> 400, detail |-> detail, email |-> email,
     token |-> token, user_id |-> NoId]

(* the whole handler, run without interleaving *)
VerifyMagicLink(email, token) ==
    LET recs == FindUnused(verification, lower(email), token)
        rec == recs[Len(recs)]
        existing == FindUserByEmail(user, lower(email))
    IN IF ~is_valid_domain(lower(email))
       THEN /\ resp' = VerifyFail(email, token, "Invalid email")
            /\ UNCHANGED <<store, now, pc, loc>>
       ELSE IF recs = <<>>
       THEN /\ resp' = VerifyFail(email, token, "Invalid or used token")
            /\ UNCHANGED <<store, now, pc, loc>>
       ELSE IF Expired(verification[rec], now)
       THEN /\ resp' = VerifyFail(email, token, "Token expired")
            /\ UNCHANGED <<store, now, pc, loc>>
       ELSE /\ user' = IF existing # NoId THEN user
                       ELSE create_document(user, User(lower(email)))
            /\ verification' = MarkUsed(verification, rec)
            /\ resp' = [op |-> "verify", status |-> 200, detail |-> "Verified",
                        email |-> email, token |-> token,
                        user_id |-> IF existing # NoId THEN existing ELSE Len(user) + 1]
            /\ UNCHANGED <<profile, swipe, match, message, now, pc, loc>>

(* The same handler as the store steps of an in-flight request p. *)

VerifyCall(p, email, token) ==
    /\ pc[p] = "idle"
    /\ IF ~is_valid_domain(lower(email))
       THEN /\ resp' = VerifyFail(email, token, "Invalid email")
            /\ UNCHANGED <<pc, loc>>
       ELSE /\ pc' = [pc EXCEPT ![p] = "find_recs"]
            /\ loc' = [loc EXCEPT ![p] =
                          [op |-> "verify", given |-> email, email |-> lower(email),
                           token |-> token, rec |-> NoId, user_id |-> NoId,
                           status |-> 0, detail |-> ""]]
            /\ UNCHANGED resp
    /\ UNCHANGED <<store, now>>

(* recs = get_documents(...); rec = recs[-1]; the expiry test *)
VerifyFindRecs(p) ==
    /\ pc[p] = "find_recs"
    /\ LET recs == FindUnused(verification, loc[p].email, loc[p].token)
           rec == recs[Len(recs)]
       IN IF recs = <<>>
          THEN /\ loc' = [loc EXCEPT ![p].status = 400,
                                     ![p].detail = "Invalid or used token"]
               /\ pc' = [pc EXCEPT ![p] = "return"]
          ELSE IF Expired(verification[rec], now)
          THEN /\ loc' = [loc EXCEPT ![p].status = 400, ![p].detail = "Token expired"]
               /\ pc' = [pc EXCEPT ![p] = "return"]
          ELSE /\ loc' = [loc EXCEPT ![p].rec = rec]
               /\ pc' = [pc EXCEPT ![p] = "find_user"]
    /\ UNCHANGED <<store, now, resp>>

(* existing = db["user"].find_one({"email": email}) *)
VerifyFindUser(p) ==
    /\ pc[p] = "find_user"
    /\ LET existing == FindUserByEmail(user, loc[p].email)
       IN IF existing # NoId
          THEN /\ loc' = [loc EXCEPT ![p].user_id = existing]
               /\ pc' = [pc EXCEPT ![p] = "mark_used"]
          ELSE /\ pc' = [pc EXCEPT ![p] = "create_user"]
               /\ UNCHANGED loc
    /\ UNCHANGED <<store, now, resp>>

(* user_id = create_document("user", User(email=email)) *)
VerifyCreateUser(p) ==
    /\ pc[p] = "create_user"
    /\ user' = create_document(user, User(loc[p].email))
    /\ loc' = [loc EXCEPT ![p].user_id = Len(user) + 1]
    /\ pc' = [pc EXCEPT ![p] = "mark_used"]
    /\ UNCHANGED <<profile, swipe, match, message, verification, now, resp>>

(* db["verification"].update_one(...) *)
VerifyMarkUsed(p) ==
    /\ pc[p] = "mark_used"
    /\ verification' = MarkUsed(verification, loc[p].rec)
    /\ loc' = [loc EXCEPT ![p].status = 200, ![p].detail = "Verified"]
    /\ pc' = [pc EXCEPT ![p] = "return"]
    /\ UNCHANGED <<user, profile, swipe, match, message, now, resp>>

VerifyReturn(p) ==
    /\ pc[p] = "return"
    /\ loc[p].op = "verify"
    /\ resp' = [op |-> "verify", status |-> loc[p].status, detail |-> loc[p].detail,
                email |-> loc[p].given, token |-> loc[p].token,
                user_id |-> loc[p].user_id]
    /\ pc' = [pc EXCEPT ![p] = "idle"]
    /\ loc' = [loc EXCEPT ![p] = Idle]
    /\ UNCHANGED <<store, now>>

----------------------------------------------------------------------------
(* POST /profile, src/main.py:123-174.  A photo list is modelled by its
   length, a bio by its words (the empty bio is Python's falsy bio). *)

Min(a, b) == IF a <= b THEN a ELSE b

(* any(w in lowered for w in BANNED_WORDS) *)
BioProhibited(bio) == \E k \in DOMAIN bio : LowerStr(bio[k]) \in BANNED_WORDS

(* a faulty variant of PhotosOutOfBounds: the upper bound is not tested *)
PhotosOutOfBounds_NoMax(n) == n < MIN_PHOTOS

(* len(payload.photos) < MIN_PHOTOS or len(payload.photos) > MAX_PHOTOS *)
PhotosOutOfBounds(n) == n < MIN_PHOTOS \/ n > MAX_PHOTOS

(* db["user"].update_one({_id}, {$set: {first_name, last_name, residence_id,
   allow_all_residences}}) *)
UpdateUserFields(us, user_id, payload) ==
    [us EXCEPT ![user_id].first_name = payload.first_name,
               ![user_id].residence_id = payload.residence_id,
               ![user_id].allow_all_residences = payload.allow_all_residences]

(* profile_doc; photos_docs is built from payload.photos[:MAX_PHOTOS] *)
ProfileDoc(user_id, payload) ==
    [user_id |-> user_id, bio |-> payload.bio, age |-> payload.age,
     photos |-> Min(payload.photos, MAX_PHOTOS)]

(* db["profile"].find_one({"user_id": user_id}) *)
FindProfile(pr, user_id) == find_one({i \in DOMAIN pr : pr[i].user_id = user_id})

(* update_one($set profile_doc) on the existing profile, else create_document *)
SaveProfile(pr, existing_profile, profile_doc) ==
    IF existing_profile # NoId
    THEN [pr EXCEPT ![existing_profile] = profile_doc]
    ELSE create_document(pr, profile_doc)

ProfileResp(user_id, payload, status) ==
    [op |-> "profile", status |-> status, user_id |-> user_id, payload |-> payload]

(* the whole handler, run without interleaving *)
CreateOrUpdateProfile(user_id, payload) ==
    IF BioProhibited(payload.bio) \/ PhotosOutOfBounds(payload.photos)
    THEN /\ resp' = ProfileResp(user_id, payload, 400)
         /\ UNCHANGED <<store, now, pc, loc>>
    ELSE IF user_id \notin DOMAIN user
    THEN /\ resp' = ProfileResp(user_id, payload, 404)
         /\ UNCHANGED <<store, now, pc, loc>>
    ELSE /\ user' = UpdateUserFields(user, user_id, payload)
         /\ profile' = SaveProfile(profile, FindProfile(profile, user_id),
                                   ProfileDoc(user_id, payload))
         /\ resp' = ProfileResp(user_id, payload, 200)
         /\ UNCHANGED <<swipe, match, message, verification, now, pc, loc>>

(* The same handler as the store steps of an in-flight request p. *)

ProfileCall(p, user_id, payload) ==
    /\ pc[p] = "idle"
    /\ IF BioProhibited(payload.bio) \/ PhotosOutOfBounds(payload.photos)
       THEN /\ resp' = ProfileResp(user_id, payload, 400)
            /\ UNCHANGED <<pc, loc>>
       ELSE /\ pc' = [pc EXCEPT ![p] = "find_user"]
            /\ loc' = [loc EXCEPT ![p] =
                          [op |-> "profile", user_id |-> user_id, payload |-> payload,
                           existing_profile |-> NoId, status |-> 0]]
            /\ UNCHANGED resp
    /\ UNCHANGED <<store, now>>

(* user = db["user"].find_one({"_id": obj_id}); 404 if not user *)
ProfileFindUser(p) ==
    /\ pc[p] = "find_user"
    /\ IF loc[p].user_id \notin DOMAIN user
       THEN /\ loc' = [loc EXCEPT ![p].status = 404]
            /\ pc' = [pc EXCEPT ![p] = "return_profile"]
       ELSE /\ pc' = [pc EXCEPT ![p] = "update_user"]
            /\ UNCHANGED loc
    /\ UNCHANGED <<store, now, resp>>

(* db["user"].update_one({_id}, {$set: ...}) *)
ProfileUpdateUser(p) ==
    /\ pc[p] = "update_user"
    /\ user' = UpdateUserFields(user, loc[p].user_id, loc[p].payload)
    /\ pc' = [pc EXCEPT ![p] = "find_profile"]
    /\ UNCHANGED <<profile, swipe, match, message, verification, now, resp, loc>>

(* existing_profile = db["profile"].find_one({"user_id": user_id}) *)
ProfileFindExisting(p) ==
    /\ pc[p] = "find_profile"
    /\ loc' = [loc EXCEPT ![p].existing_profile = FindProfile(profile, loc[p].user_id)]
    /\ pc' = [pc EXCEPT ![p] = "save_profile"]
    /\ UNCHANGED <<store, now, resp>>

(* update_one on existing_profile, else create_document("profile", profile_doc) *)
ProfileSave(p) ==
    /\ pc[p] = "save_profile"
    /\ profile' = SaveProfile(profile, loc[p].existing_profile,
                              ProfileDoc(loc[p].user_id, loc[p].payload))
    /\ loc' = [loc EXCEPT ![p].status = 200]
    /\ pc' = [pc EXCEPT ![p] = "return_profile"]
    /\ UNCHANGED <<user, swipe, match, message, verification, now, resp>>

ProfileReturn(p) ==
    /\ pc[p] = "return_profile"
    /\ resp' = ProfileResp(loc[p].user_id, loc[p].payload, loc[p].status)
    /\ pc' = [pc EXCEPT ![p] = "idle"]
    /\ loc' = [loc EXCEPT ![p] = Idle]
    /\ UNCHANGED <<store, now>>

(* User.is_banned (src/schemas.py) is set by no handler: a moderator sets it
   in the store *)
Ban(user_id) ==
    /\ user_id \in DOMAIN user
    /\ ~user[user_id].is_banned
    /\ user' = [user EXCEPT ![user_id].is_banned = TRUE]
    /\ resp' = [op |-> "ban", user_id |-> user_id]
    /\ UNCHANGED <<profile, swipe, match, message, verification, now, pc, loc>>

----------------------------------------------------------------------------
(* GET /discover, src/main.py:177-216 *)

(* the store's equality test {"residence_id": value} on a profile document:
   a document without the field matches only the value None *)
ResidenceEquals(prof, value) ==
    IF "residence_id" \in DOMAIN prof THEN prof.residence_id = value ELSE value = None

(* filter_query *)
FilterQuery(requester_id, prof) ==
    /\ prof.user_id # requester_id
    /\ \/ user[requester_id].allow_all_residences
       \/ ResidenceEquals(prof, user[requester_id].residence_id)

(* swiped_ids *)
SwipedIds(user_id) ==
    LET docs == get_documents({j \in DOMAIN swipe : swipe[j].swiper_id = user_id})
    IN {swipe[docs[k]].target_id : k \in DOMAIN docs}

(* a faulty variant of Skipped: banned users are shown *)
Skipped_BannedShown(prof, swiped_ids) ==
    \/ prof.user_id \in swiped_ids
    \/ prof.user_id \notin DOMAIN user

(* the loop's two "continue" tests *)
Skipped(prof, swiped_ids) ==
    \/ prof.user_id \in swiped_ids
    \/ prof.user_id \notin DOMAIN user
    \/ user[prof.user_id].is_banned

Card(prof) ==
    [user_id |-> prof.user_id, first_name |-> user[prof.user_id].first_name,
     age |-> prof.age, bio |-> prof.bio,
     residence_id |-> user[prof.user_id].residence_id, photos |-> prof.photos]

discover(user_id, limit) ==
    IF user_id \notin DOMAIN user
    THEN [status |-> 404, results |-> <<>>]
    ELSE IF FindProfile(profile, user_id) = NoId
    THEN [status |-> 400, results |-> <<>>]
    ELSE LET swiped_ids == SwipedIds(user_id)
             candidates == limit_to(cursor({i \in DOMAIN profile :
                                               FilterQuery(user_id, profile[i])}),
                                    limit * 2)
             Kept(i) == ~Skipped(profile[i], swiped_ids)
             kept == limit_to(SelectSeq(candidates, Kept), limit)
         IN [status |-> 200, results |-> [k \in DOMAIN kept |-> Card(profile[kept[k]])]]

Discover(user_id, limit) ==
    /\ resp' = [op |-> "discover", user_id |-> user_id, limit |-> limit]
                 @@ discover(user_id, limit)
    /\ UNCHANGED <<store, now, pc, loc>>

----------------------------------------------------------------------------
(* POST /swipe, src/main.py:219-244: the store steps *)

(* a faulty variant of FindReciprocal: only the target's latest swipe on the
   caller counts *)
FindReciprocal_LatestOnly(sw, user_id, target_id) ==
    LET theirs == {i \in DOMAIN sw : sw[i].swiper_id = target_id /\ sw[i].target_id = user_id}
        latest == IF theirs = {} THEN NoId
                  ELSE CHOOSE i \in theirs : \A j \in theirs : j <= i
    IN IF latest # NoId /\ sw[latest].direction = "right" THEN latest ELSE NoId

(* db["swipe"].find_one({swiper_id: target_id, target_id: user_id, direction: "right"}) *)
FindReciprocal(sw, user_id, target_id) ==
    find_one({i \in DOMAIN sw : /\ sw[i].swiper_id = target_id
                                /\ sw[i].target_id = user_id
                                /\ sw[i].direction = "right"})

(* a faulty variant of Reciprocal: the direction is not looked at *)
Reciprocal_AnyDirection(sw, user_id, target_id, direction) ==
    FindReciprocal(sw, user_id, target_id)

(* is_match's lookup: made for a right swipe only *)
Reciprocal(sw, user_id, target_id, direction) ==
    IF direction = "right" THEN FindReciprocal(sw, user_id, target_id) ELSE NoId

(* db["match"].find_one({$or: [{user_a: u, user_b: t}, {user_a: t, user_b: u}]}) *)
FindExistingMatch(m, user_id, target_id) ==
    find_one({i \in DOMAIN m : \/ m[i] = Match(user_id, target_id)
                               \/ m[i] = Match(target_id, user_id)})

(* a faulty variant of MatchAfterSwipe: the match is inserted without the check *)
MatchAfterSwipe_Unchecked(m, existing, user_id, target_id) ==
    create_document(m, Match(user_id, target_id))

(* the match collection after the handler's "create match if not exists" *)
MatchAfterSwipe(m, existing, user_id, target_id) ==
    IF existing = NoId THEN create_document(m, Match(user_id, target_id)) ELSE m

(* the whole handler, run without interleaving *)
Swipe(user_id, target_id, direction) ==
    IF direction \notin {"left", "right"}
    THEN /\ resp' = [op |-> "swipe", status |-> 400, user_id |-> user_id,
                     target_id |-> target_id, direction |-> direction]
         /\ UNCHANGED <<store, now, pc, loc>>
    ELSE LET swipe1 == create_document(swipe, SwipeDoc(user_id, target_id, direction))
             reciprocal == Reciprocal(swipe1, user_id, target_id, direction)
             existing == FindExistingMatch(match, user_id, target_id)
         IN /\ Len(swipe) < MaxSwipes
            /\ swipe' = swipe1
            /\ match' = IF reciprocal # NoId
                        THEN MatchAfterSwipe(match, existing, user_id, target_id)
                        ELSE match
            /\ resp' = [op |-> "swipe", status |-> 200, user_id |-> user_id,
                        target_id |-> target_id, direction |-> direction,
                        match |-> (reciprocal # NoId)]
            /\ UNCHANGED <<user, profile, message, verification, now, pc, loc>>

(* The same handler as the store steps of an in-flight request p, which
   other requests' steps may come between. *)

SwipeCall(p, user_id, target_id, direction) ==
    /\ pc[p] = "idle"
    /\ IF direction \notin {"left", "right"}
       THEN /\ resp' = [op |-> "swipe", status |-> 400, user_id |-> user_id,
                        target_id |-> target_id, direction |-> direction]
            /\ UNCHANGED <<pc, loc>>
       ELSE /\ Len(swipe) + Cardinality({q \in Procs : pc[q] = "insert_swipe"}) < MaxSwipes
            /\ pc' = [pc EXCEPT ![p] = "insert_swipe"]
            /\ loc' = [loc EXCEPT ![p] =
                          [op |-> "swipe", user_id |-> user_id, target_id |-> target_id,
                           direction |-> direction, reciprocal |-> NoId,
                           existing |-> NoId, is_match |-> FALSE]]
            /\ UNCHANGED resp
    /\ UNCHANGED <<store, now>>

(* create_document("swipe", swipe_doc) *)
SwipeInsert(p) ==
    /\ pc[p] = "insert_swipe"
    /\ swipe' = create_document(swipe, SwipeDoc(loc[p].user_id, loc[p].target_id,
                                                loc[p].direction))
    /\ pc' = [pc EXCEPT ![p] = "find_reciprocal"]
    /\ UNCHANGED <<user, profile, match, message, verification, now, resp, loc>>

(* if direction == "right": reciprocal = db["swipe"].find_one(...) *)
SwipeFindReciprocal(p) ==
    /\ pc[p] = "find_reciprocal"
    /\ LET reciprocal == Reciprocal(swipe, loc[p].user_id, loc[p].target_id,
                                    loc[p].direction)
       IN /\ loc' = [loc EXCEPT ![p].reciprocal = reciprocal]
          /\ pc' = [pc EXCEPT ![p] = IF reciprocal # NoId THEN "find_existing"
                                     ELSE "return"]
    /\ UNCHANGED <<store, now, resp>>

(* existing = db["match"].find_one(...) *)
SwipeFindExisting(p) ==
    /\ pc[p] = "find_existing"
    /\ loc' = [loc EXCEPT ![p].existing =
                  FindExistingMatch(match, loc[p].user_id, loc[p].target_id)]
    /\ pc' = [pc EXCEPT ![p] = "insert_match"]
    /\ UNCHANGED <<store, now, resp>>

(* if not existing: create_document("match", ...); is_match = True *)
SwipeInsertMatch(p) ==
    /\ pc[p] = "insert_match"
    /\ match' = MatchAfterSwipe(match, loc[p].existing, loc[p].user_id, loc[p].target_id)
    /\ loc' = [loc EXCEPT ![p].is_match = TRUE]
    /\ pc' = [pc EXCEPT ![p] = "return"]
    /\ UNCHANGED <<user, profile, swipe, message, verification, now, resp>>

(* return {"message": "swiped", "match": is_match} *)
SwipeReturn(p) ==
    /\ pc[p] = "return"
    /\ loc[p].op = "swipe"
    /\ resp' = [op |-> "swipe", status |-> 200, user_id |-> loc[p].user_id,
                target_id |-> loc[p].target_id, direction |-> loc[p].direction,
                match |-> loc[p].is_match]
    /\ pc' = [pc EXCEPT ![p] = "idle"]
    /\ loc' = [loc EXCEPT ![p] = Idle]
    /\ UNCHANGED <<store, now>>

----------------------------------------------------------------------------
(* GET /matches, src/main.py:247-261 *)

MatchesOf(user_id) ==
    cursor({i \in DOMAIN match : match[i].user_a = user_id \/ match[i].user_b = user_id})

OtherId(m, user_id) == IF m.user_a = user_id THEN m.user_b ELSE m.user_a

(* photos of the first profile of other_id, [] when there is none *)
PhotosOf(other_id) ==
    LET prof == find_one({i \in DOMAIN profile : profile[i].user_id = other_id})
    IN IF prof = NoId THEN 0 ELSE profile[prof].photos

(* u.get("first_name") on a missing user raises: the request ends 500 *)
list_matches(user_id) ==
    LET ms == MatchesOf(user_id)
    IN IF \E k \in DOMAIN ms : OtherId(match[ms[k]], user_id) \notin DOMAIN user
       THEN [status |-> 500, results |-> <<>>]
       ELSE [status |-> 200,
             results |-> [k \in DOMAIN ms |->
                 LET other_id == OtherId(match[ms[k]], user_id)
                 IN [match_id |-> ms[k], user_id |-> other_id,
                     first_name |-> user[other_id].first_name,
                     photos |-> PhotosOf(other_id)]]]

ListMatches(user_id) ==
    /\ resp' = [op |-> "list_matches", user_id |-> user_id] @@ list_matches(user_id)
    /\ UNCHANGED <<store, now, pc, loc>>

----------------------------------------------------------------------------
(* GET /messages and POST /messages, src/main.py:264-283 *)

(* a faulty variant of NotParticipant: only the match's existence is checked *)
NotParticipant_AnyCaller(user_id, match_id) == match_id \notin DOMAIN match

(* not match or user_id not in {match.user_a, match.user_b} *)
NotParticipant(user_id, match_id) ==
    \/ match_id \notin DOMAIN match
    \/ user_id \notin {match[match_id].user_a, match[match_id].user_b}

list_messages(user_id, match_id) ==
    IF NotParticipant(user_id, match_id)
    THEN [status |-> 404, results |-> <<>>]
    ELSE [status |-> 200,
          results |-> cursor({i \in DOMAIN message : message[i].match_id = match_id})]

ListMessages(user_id, match_id) ==
    /\ resp' = [op |-> "list_messages", user_id |-> user_id, match_id |-> match_id]
                 @@ list_messages(user_id, match_id)
    /\ UNCHANGED <<store, now, pc, loc>>

SendMessage(user_id, match_id, text) ==
    IF NotParticipant(user_id, match_id)
    THEN /\ resp' = [op |-> "send_message", status |-> 404, user_id |-> user_id,
                     match_id |-> match_id]
         /\ UNCHANGED <<store, now, pc, loc>>
    ELSE /\ Len(message) < MaxMessages
         /\ message' = create_document(message, Message(match_id, user_id, text))
         /\ resp' = [op |-> "send_message", status |-> 200, user_id |-> user_id,
                     match_id |-> match_id]
         /\ UNCHANGED <<user, profile, swipe, match, verification, now, pc, loc>>

----------------------------------------------------------------------------
(* The swipe, match and messaging handlers, one request at a time, once
   alice, bob and carol have registered by verifying their emails. *)

RegisteredEmails ==
    <<Email("alice", "polito.it"), Email("bob", "unito.it"), Email("carol", "polito.it")>>

SwipeIds == {1, 2}

(* callers of the messaging endpoints *)
CallerIds == {1, 2, 3}

(* match ids asked for: every stored match and one that is not stored *)
MatchIds == 1 .. (Len(match) + 1)

Directions == {"left", "right", "up"}

Texts == {"hi"}

InitRegistered ==
    /\ user = [i \in DOMAIN RegisteredEmails |-> User(RegisteredEmails[i])]
    /\ profile = <<>>
    /\ swipe = <<>>
    /\ match = <<>>
    /\ message = <<>>
    /\ verification = <<>>
    /\ now = 0
    /\ resp = NoResp
    /\ pc = [p \in Procs |-> "idle"]
    /\ loc = [p \in Procs |-> Idle]

NextSwipe ==
    \/ \E u \in SwipeIds, t \in SwipeIds, d \in Directions : Swipe(u, t, d)
    \/ \E u \in SwipeIds : ListMatches(u)
    \/ \E u \in CallerIds, m \in MatchIds : ListMessages(u, m)
    \/ \E u \in CallerIds, m \in MatchIds, x \in Texts : SendMessage(u, m, x)

SpecSwipe == InitRegistered /\ [][NextSwipe]_vars

(* The swipe handler with the store steps of concurrent requests interleaved. *)
NextSwipeRace ==
    \/ \E p \in Procs, u \in SwipeIds, t \in SwipeIds, d \in Directions :
           SwipeCall(p, u, t, d)
    \/ \E p \in Procs : SwipeInsert(p)
    \/ \E p \in Procs : SwipeFindReciprocal(p)
    \/ \E p \in Procs : SwipeFindExisting(p)
    \/ \E p \in Procs : SwipeInsertMatch(p)
    \/ \E p \in Procs : SwipeReturn(p)

SpecSwipeRace == InitRegistered /\ [][NextSwipeRace]_vars

(* Swipes whose caller-supplied ids need not be ids of users: 4 is the id of
   no user. *)
SoftIds == {1, 4}

NextSoftRef ==
    \/ \E u \in SoftIds, t \in SoftIds, d \in {"left", "right"} : Swipe(u, t, d)
    \/ \E u \in SoftIds : ListMatches(u)

SpecSoftRef == InitRegistered /\ [][NextSoftRef]_vars

----------------------------------------------------------------------------
(* Magic-link sign-in from the empty store. *)

Emails ==
    {Email("alice", "polito.it"), Email("Alice", "POLITO.IT"),
     Email("bob", "unito.it"), Email("eve", "evil.com")}

Purposes == {"login"}

(* tokens presented to verify: every token that can be issued and one more *)
Tokens == 1 .. (MaxVerifications + 1)

TickSteps == {1, MAGIC_TOKEN_TTL}

InitEmpty ==
    /\ user = <<>>
    /\ profile = <<>>
    /\ swipe = <<>>
    /\ match = <<>>
    /\ message = <<>>
    /\ verification = <<>>
    /\ now = 0
    /\ resp = NoResp
    /\ pc = [p \in Procs |-> "idle"]
    /\ loc = [p \in Procs |-> Idle]

NextAuth ==
    \/ \E e \in Emails, pu \in Purposes : SendMagicLink(e, pu)
    \/ \E e \in Emails, t \in Tokens : VerifyMagicLink(e, t)
    \/ \E d \in TickSteps : Tick(d)

SpecAuth == InitEmpty /\ [][NextAuth]_vars

(* verify requests whose store steps interleave, all for one mailbox *)
RaceEmails == {Email("alice", "polito.it"), Email("eve", "evil.com")}

NextVerifyRace ==
    \/ \E e \in RaceEmails, pu \in Purposes : SendMagicLink(e, pu)
    \/ \E p \in Procs, e \in RaceEmails, t \in Tokens : VerifyCall(p, e, t)
    \/ \E p \in Procs : VerifyFindRecs(p)
    \/ \E p \in Procs : VerifyFindUser(p)
    \/ \E p \in Procs : VerifyCreateUser(p)
    \/ \E p \in Procs : VerifyMarkUsed(p)
    \/ \E p \in Procs : VerifyReturn(p)
    \/ \E d \in TickSteps : Tick(d)

SpecVerifyRace == InitEmpty /\ [][NextVerifyRace]_vars

----------------------------------------------------------------------------
(* Saving profiles, one request at a time. *)

Residences == {None, "dormA"}

(* 4 is the id of no user *)
ProfileIds == {1, 2, 4}

ProfilePayloads ==
    [first_name : {"Sam"}, residence_id : {None}, allow_all_residences : {FALSE},
     bio : {<<>>, <<"hi">>, <<"so", "BadWord">>}, age : {20},
     photos : {MIN_PHOTOS - 1, MIN_PHOTOS, MAX_PHOTOS, MAX_PHOTOS + 1}]

NextProfile ==
    \E u \in ProfileIds, pl \in ProfilePayloads : CreateOrUpdateProfile(u, pl)

SpecProfile == InitRegistered /\ [][NextProfile]_vars

(* profile saves whose store steps interleave *)
RaceProfileIds == {1, 4}

RaceProfilePayloads ==
    [first_name : {"Sam", "Alex"}, residence_id : {None}, allow_all_residences : {FALSE},
     bio : {<<>>}, age : {20}, photos : {MIN_PHOTOS, MIN_PHOTOS + 1, MAX_PHOTOS + 1}]

NextProfileRace ==
    \/ \E p \in Procs, u \in RaceProfileIds, pl \in RaceProfilePayloads :
           ProfileCall(p, u, pl)
    \/ \E p \in Procs : ProfileFindUser(p)
    \/ \E p \in Procs : ProfileUpdateUser(p)
    \/ \E p \in Procs : ProfileFindExisting(p)
    \/ \E p \in Procs : ProfileSave(p)
    \/ \E p \in Procs : ProfileReturn(p)

SpecProfileRace == InitRegistered /\ [][NextProfileRace]_vars

(* The discovery feed: users save profiles, user 1 swipes, a moderator bans,
   and anyone asks for their feed. *)

FeedPayloads ==
    [first_name : {"Sam"}, residence_id : Residences, allow_all_residences : BOOLEAN,
     bio : {<<>>}, age : {20}, photos : {MIN_PHOTOS}]

FeedSwipers == {1}

FeedTargets == {2, 3}

Bannable == {3}

Limits == 1 .. MaxLimit

NextDiscover ==
    \/ \E u \in DOMAIN user, pl \in FeedPayloads : CreateOrUpdateProfile(u, pl)
    \/ \E u \in FeedSwipers, t \in FeedTargets, d \in {"left", "right"} :
           Len(swipe) < MaxFeedSwipes /\ Swipe(u, t, d)
    \/ \E u \in Bannable : Ban(u)
    \/ \E u \in DOMAIN user, l \in Limits : Discover(u, l)

SpecDiscover == InitRegistered /\ [][NextDiscover]_vars

----------------------------------------------------------------------------
(* Claims about swipe, list_matches and messaging *)

HasRight(a, b) == \E i \in DOMAIN swipe : swipe[i] = SwipeDoc(a, b, "right")

(* the number of Match records of the unordered pair {a, b} *)
MatchCount(a, b) ==
    Cardinality({i \in DOMAIN match : match[i] \in {Match(a, b), Match(b, a)}})

Listed(a) ==
    LET r == list_matches(a) IN {r.results[k].user_id : k \in DOMAIN r.results}

(* C1: one request at a time, once distinct users A and B have each swiped
   right on the other, exactly one Match record exists for {A,B}, each is in
   the other's list_matches, and every right swipe of one on the other made
   when the other's right swipe is recorded reports match = true. *)
C1_SwipeSymmetry ==
    \A a \in DOMAIN user, b \in DOMAIN user :
        a # b =>
            /\ (HasRight(a, b) /\ HasRight(b, a)) =>
                   /\ MatchCount(a, b) = 1
                   /\ list_matches(a).status = 200
                   /\ b \in Listed(a)
                   /\ a \in Listed(b)
            /\ ( /\ resp.op = "swipe" /\ resp.status = 200
                 /\ resp.direction = "right"
                 /\ resp.user_id = a /\ resp.target_id = b
                 /\ HasRight(b, a) ) => resp.match = TRUE

(* A right swipe of 1 on 2, then of 2 on 1, then a third right swipe between
   them that reports the match. *)
C1_Witness ==
    /\ Len(swipe) = 3
    /\ swipe[1] = SwipeDoc(1, 2, "right")
    /\ swipe[2] = SwipeDoc(2, 1, "right")
    /\ swipe[3].direction = "right" /\ swipe[3].swiper_id # swipe[3].target_id
    /\ resp.op = "swipe" /\ resp.status = 200 /\ resp.match = TRUE
    /\ MatchCount(1, 2) = 1

(* C8: a caller who is not a participant of an existing Match gets 404 from
   list_messages and from send_message, which then stores nothing; every
   stored Message's sender is a participant of the Match it refers to. *)
C8_MessagingAccess ==
    /\ [](/\ \A m \in DOMAIN match, u \in CallerIds :
                u \notin {match[m].user_a, match[m].user_b}
                    => list_messages(u, m).status = 404
          /\ \A i \in DOMAIN message :
                /\ message[i].match_id \in DOMAIN match
                /\ message[i].sender_id \in {match[message[i].match_id].user_a,
                                             match[message[i].match_id].user_b})
    /\ [][ ( /\ resp'.op = "send_message"
             /\ resp'.match_id \in DOMAIN match
             /\ resp'.user_id \notin {match[resp'.match_id].user_a,
                                      match[resp'.match_id].user_b} )
           => (resp'.status = 404 /\ message' = message) ]_vars

(* A non-participant was refused on an existing match. *)
C8_Witness ==
    /\ resp.op = "send_message" /\ resp.status = 404
    /\ resp.match_id \in DOMAIN match
    /\ match[resp.match_id].user_a # match[resp.match_id].user_b
    /\ resp.user_id \notin {match[resp.match_id].user_a, match[resp.match_id].user_b}

(* C10: a left swipe adds no Match record and reports match = false, whatever
   swipes and matches are stored. *)
C10_LeftNeverMatches ==
    [][ (resp'.op = "swipe" /\ resp'.status = 200 /\ resp'.direction = "left")
        => (match' = match /\ resp'.match = FALSE) ]_vars

(* A left swipe on a user who had already swiped right on the caller. *)
C10_Witness ==
    /\ resp.op = "swipe" /\ resp.status = 200 /\ resp.direction = "left"
    /\ resp.user_id # resp.target_id
    /\ HasRight(resp.target_id, resp.user_id)
    /\ resp.match = FALSE
    /\ MatchCount(resp.user_id, resp.target_id) = 0

(* C2: at most one Match record exists for every unordered pair of users,
   also when the store steps of concurrent swipe requests interleave. *)
C2_AtMostOneMatch ==
    \A a \in SwipeIds, b \in SwipeIds : a # b => MatchCount(a, b) <= 1

(* C11: for every user U, list_matches(U) succeeds and returns exactly one
   entry per Match record that contains U, each naming the other
   participant, whatever ids swipe was called with. *)
C11_ListMatchesTotal ==
    \A u \in DOMAIN user :
        LET r == list_matches(u)
            ms == MatchesOf(u)
        IN /\ r.status = 200
           /\ Len(r.results) = Len(ms)
           /\ \A k \in DOMAIN ms :
                  /\ r.results[k].match_id = ms[k]
                  /\ r.results[k].user_id = OtherId(match[ms[k]], u)

(* C12: one request at a time, a right swipe of U on another user T reports
   match = true exactly when the log holds a right swipe of T on U at the
   time of the call, whatever left swipes T has recorded on U; a Match of
   {U,T} then exists afterwards, and a right swipe that reports match = false
   leaves the match collection unchanged. *)
C12_MatchIffReciprocal ==
    [][ ( /\ resp'.op = "swipe" /\ resp'.status = 200
          /\ resp'.direction = "right"
          /\ resp'.user_id # resp'.target_id )
        => /\ resp'.match = HasRight(resp'.target_id, resp'.user_id)
           /\ resp'.match => \E i \in DOMAIN match' :
                                 match'[i] \in {Match(resp'.user_id, resp'.target_id),
                                                Match(resp'.target_id, resp'.user_id)}
           /\ ~resp'.match => match' = match ]_vars

(* A right swipe reported the match although the target's right swipe on the
   caller was followed by the target's left swipe on the caller. *)
C12_Witness ==
    /\ Len(swipe) = 3
    /\ swipe[1] = SwipeDoc(2, 1, "right")
    /\ swipe[2] = SwipeDoc(2, 1, "left")
    /\ swipe[3] = SwipeDoc(1, 2, "right")
    /\ resp.op = "swipe" /\ resp.status = 200 /\ resp.match = TRUE
    /\ MatchCount(1, 2) = 1

(* C16: every Match record links two distinct users. *)
C16_NoSelfMatch ==
    \A i \in DOMAIN match : match[i].user_a # match[i].user_b

----------------------------------------------------------------------------
(* Claims about the magic-link token *)

(* the Verification records issued for (email, token) *)
Issued(email, token) ==
    {i \in DOMAIN verification : /\ verification[i].email = lower(email)
                                 /\ verification[i].token = token}

(* C3: one request at a time, a verify call with the email and token of an
   issued, unused and unexpired Verification succeeds, returns the id of the
   user of that email and sets the record's used flag; a verify call with an
   email and token whose record is already used fails with "Invalid or used
   token". *)
C3_TokenRoundTrip ==
    [][ resp'.op = "verify" =>
          LET issued == Issued(resp'.email, resp'.token)
          IN /\ (\E i \in issued : /\ ~verification[i].used
                                   /\ verification[i].expires_at >= now)
                    => /\ resp'.status = 200
                       /\ resp'.user_id \in DOMAIN user'
                       /\ user'[resp'.user_id].email = lower(resp'.email)
                       /\ \A i \in issued : verification'[i].used
             /\ (issued # {} /\ \A i \in issued : verification[i].used)
                    => /\ resp'.status = 400
                       /\ resp'.detail = "Invalid or used token"
                       /\ user' = user ]_vars

(* A verify call was refused for a token that an earlier call had consumed
   and that has not expired. *)
C3_Witness ==
    /\ resp.op = "verify" /\ resp.status = 400
    /\ \E i \in Issued(resp.email, resp.token) :
           verification[i].used /\ verification[i].expires_at >= now
    /\ \E u \in DOMAIN user : user[u].email = lower(resp.email)

(* C4: of two concurrent verify calls with the same email and the same valid
   unused token, at most one succeeds. *)
C4_AtomicConsumption ==
    \A p \in Procs, q \in Procs :
        ( /\ p # q
          /\ pc[p] = "return" /\ pc[q] = "return"
          /\ loc[p].op = "verify" /\ loc[q].op = "verify"
          /\ loc[p].email = loc[q].email /\ loc[p].token = loc[q].token )
        => ~(loc[p].status = 200 /\ loc[q].status = 200)

(* C13: at most one User record exists per email, also when verify calls
   for one not-yet-registered email interleave their store steps. *)
C13_UniqueEmail ==
    \A i \in DOMAIN user, j \in DOMAIN user : user[i].email = user[j].email => i = j

(* the spec's error kind of a refusal of verify *)
ErrorKind(detail) ==
    IF detail \in {"Invalid or used token", "Token expired"} THEN "InvalidToken"
    ELSE IF detail = "Invalid email" THEN "InvalidArgument"
    ELSE "None"

(* a verify call succeeds only on an unused, unexpired record of its
   lowercased email and token; a refused call leaves users and verification
   records as they were *)
VerifyOutcome ==
    /\ resp'.status = 200 =>
           \E i \in Issued(resp'.email, resp'.token) :
               ~verification[i].used /\ verification[i].expires_at >= now
    /\ resp'.status # 200 => (user' = user /\ verification' = verification)

(* an expired, unused record is never marked used *)
ExpiredStaysUnused ==
    \A i \in DOMAIN verification :
        (~verification[i].used /\ verification[i].expires_at < now)
            => ~verification'[i].used

(* C15 as stated: a verify call succeeds only on an unused, unexpired record
   of its lowercased email and token; every refused verify call is refused
   with InvalidToken, creates no user and changes no verification record; an
   expired token stays unused. *)
C15_EveryFailureInvalidToken ==
    /\ [][ resp'.op = "verify" =>
             /\ VerifyOutcome
             /\ resp'.status # 200 => ErrorKind(resp'.detail) = "InvalidToken" ]_vars
    /\ [][ExpiredStaysUnused]_vars

(* C15, amended: a verify call succeeds only on an unused, unexpired record
   of its lowercased email and token; a refused verify call for an email of
   an allowed domain is refused with InvalidToken, one for an email of any
   other domain with InvalidArgument; every refused call creates no user and
   changes no verification record; an expired token stays unused. *)
C15_VerifyFailure ==
    /\ [][ resp'.op = "verify" =>
             /\ VerifyOutcome
             /\ resp'.status # 200 =>
                    ErrorKind(resp'.detail) =
                        IF is_valid_domain(lower(resp'.email)) THEN "InvalidToken"
                        ELSE "InvalidArgument" ]_vars
    /\ [][ExpiredStaysUnused]_vars

(* A verify call was refused because its token had expired one second
   before, and the token's record is still unused. *)
C15_Witness ==
    /\ resp.op = "verify" /\ resp.status = 400 /\ resp.detail = "Token expired"
    /\ \E i \in Issued(resp.email, resp.token) :
           ~verification[i].used /\ verification[i].expires_at + 1 = now

----------------------------------------------------------------------------
(* Claims about discovery and profiles *)

HasSwiped(u, t) == \E i \in DOMAIN swipe : swipe[i].swiper_id = u /\ swipe[i].target_id = t

(* C5: no card returned by discover(U, limit) is U's own, is of a user U has
   swiped on (left or right), or is of a banned user. *)
C5_DiscoverExclusions ==
    \A u \in DOMAIN user, l \in Limits :
        LET cards == discover(u, l).results
        IN \A k \in DOMAIN cards :
               /\ cards[k].user_id # u
               /\ ~HasSwiped(u, cards[k].user_id)
               /\ ~user[cards[k].user_id].is_banned

(* A feed was returned with a card in it while a profile that passes the
   feed's query was left out because the requester had swiped on its owner. *)
C5_Witness ==
    /\ resp.op = "discover" /\ resp.status = 200
    /\ resp.results # <<>>
    /\ \E i \in DOMAIN profile :
           /\ FilterQuery(resp.user_id, profile[i])
           /\ HasSwiped(resp.user_id, profile[i].user_id)

(* C6: when the requester's allow_all_residences is false, every card is of
   a user whose residence_id equals the requester's. *)
C6_SameResidence ==
    \A u \in DOMAIN user, l \in Limits :
        ~user[u].allow_all_residences =>
            LET cards == discover(u, l).results
            IN \A k \in DOMAIN cards :
                   user[cards[k].user_id].residence_id = user[u].residence_id

(* the profiles that are valid candidates for requester u *)
ValidCandidates(u) ==
    {i \in DOMAIN profile :
        /\ profile[i].user_id # u
        /\ profile[i].user_id \in DOMAIN user
        /\ ~user[profile[i].user_id].is_banned
        /\ ~HasSwiped(u, profile[i].user_id)
        /\ \/ user[u].allow_all_residences
           \/ user[profile[i].user_id].residence_id = user[u].residence_id}

(* C7: discover(U, limit) returns exactly min(limit, number of valid
   candidates) cards. *)
C7_DiscoverComplete ==
    \A u \in DOMAIN user, l \in Limits :
        LET r == discover(u, l)
        IN r.status = 200 =>
               /\ Len(r.results) <= l
               /\ Len(r.results) = Min(l, Cardinality(ValidCandidates(u)))

(* C9: every Profile record holds between MIN_PHOTOS and MAX_PHOTOS photos;
   a save with too few or too many photos, a prohibited bio or an unknown
   user fails, and a failed save leaves users and profiles unchanged. *)
C9_PhotoBounds ==
    /\ [](\A i \in DOMAIN profile :
              profile[i].photos >= MIN_PHOTOS /\ profile[i].photos <= MAX_PHOTOS)
    /\ [][ resp'.op = "profile" =>
             /\ ( \/ resp'.payload.photos < 3
                  \/ resp'.payload.photos > 8
                  \/ \E k \in DOMAIN resp'.payload.bio :
                         resp'.payload.bio[k] \in {"badword", "BadWord"}
                  \/ resp'.user_id \notin DOMAIN user ) => resp'.status # 200
             /\ resp'.status # 200 => (user' = user /\ profile' = profile) ]_vars

(* A save with one photo too many was refused after a profile had been
   saved. *)
C9_Witness ==
    /\ resp.op = "profile" /\ resp.status = 400
    /\ resp.payload.photos = MAX_PHOTOS + 1
    /\ resp.payload.bio = <<>>
    /\ resp.user_id \in DOMAIN user
    /\ \E i \in DOMAIN profile : profile[i].photos = MAX_PHOTOS

(* C14: at most one Profile record exists per user_id, also when two saves
   for one user interleave their store steps. *)
C14_OneProfilePerUser ==
    \A i \in DOMAIN profile, j \in DOMAIN profile :
        profile[i].user_id = profile[j].user_id => i = j

====
